---------------------------- MODULE Spec2Model ----------------------------
(***************************************************************************)
(* newprompt: the transcript renderer (jsonl_to_markdown) and the session  *)
(* directory operations (create_prompt_dir, launch_claude, save_chat,      *)
(* find_session, main) of src/src/newprompt/cli.py.                        *)
(*                                                                         *)
(* A Python str is a sequence of tokens (TLA+ strings); directory names,   *)
(* queries and identifiers are sequences of single characters, so that     *)
(* substring tests and lexicographic comparison are computed, not assumed. *)
(***************************************************************************)
EXTENDS Integers, Sequences, FiniteSets, TLC

VARIABLES
    log,             \* renderer: the lines of the file given to jsonl_to_markdown
    result,          \* renderer: outcome of the call (None before it)
    now,             \* datetime.datetime.now(), as an index into Dates
    history_dir,     \* the name of the history directory (--history-dir)
    history_exists,  \* the history directory exists
    dirs,            \* the session directories of the history directory, by name
    projects,        \* the Claude projects directory: the log of each session id
    config,          \* the config file (None when it does not exist)
    uuid_count,      \* number of identifiers uuid.uuid4() has handed out
    _active_session_dir,  \* the MCP server's active session directory, or None
    ret              \* the last operation and what it returned

rvars == <<log, result>>
fsvars ==
    <<now, history_dir, history_exists, dirs, projects, config, uuid_count,
      _active_session_dir, ret>>
vars ==
    <<log, result, now, history_dir, history_exists, dirs, projects, config, uuid_count,
      _active_session_dir, ret>>

None == [t |-> "None"]

---------------------------------------------------------------------------
(* Values produced by json.loads.                                          *)

JNull == [t |-> "null"]
JStr(s) == [t |-> "str", s |-> s]
JNum(n) == [t |-> "num", n |-> n]
JList(xs) == [t |-> "list", items |-> xs]
JDict(m) == [t |-> "dict", map |-> m]

EmptyMap == [k \in {} |-> JNull]

IsStr(v) == v.t = "str"
IsList(v) == v.t = "list"
IsDict(v) == v.t = "dict"

\* d.get(k, default) on a dict
Get(d, k, default) == IF k \in DOMAIN d.map THEN d.map[k] ELSE default

\* Python truth value of a decoded value
Truthy(v) ==
    CASE v.t = "str" -> v.s # <<>>
      [] v.t = "num" -> v.n # 0
      [] v.t = "list" -> v.items # <<>>
      [] v.t = "dict" -> DOMAIN v.map # {}
      [] OTHER -> FALSE

\* str(v) as an f-string interpolates it
Format(v) ==
    CASE v.t = "str" -> v.s
      [] v.t = "num" -> <<"<num>">>
      [] v.t = "null" -> <<"None">>
      [] v.t = "list" -> <<"<list>">>
      [] OTHER -> <<"<dict>">>

\* needle in haystack, for two str
IsSubstring(needle, hay) ==
    \E i \in 0..(Len(hay) - Len(needle)) :
        SubSeq(hay, i + 1, i + Len(needle)) = needle

Ok(v) == [exc |-> "none", val |-> v]
Raise(e) == [exc |-> e, val |-> None]

---------------------------------------------------------------------------
(* _format_timestamp                                                       *)

IsoZ == <<"2026-02-17T10:00:00.000Z">>
IsoOffset == <<"2026-02-17T10:00:00+05:00">>
NotIso == <<"yesterday">>

\* datetime.fromisoformat(ts.replace("Z", "+00:00")).strftime(...) on the
\* timestamps of the model; anything else raises ValueError.
IsoFormatted ==
    (IsoZ :> <<"2026-02-17 10:00:00 UTC">>) @@
    (IsoOffset :> <<"2026-02-17 10:00:00 UTC">>)

_format_timestamp(ts) ==
    IF IsStr(ts) /\ ts.s \in DOMAIN IsoFormatted
    THEN JStr(IsoFormatted[ts.s])
    ELSE ts

---------------------------------------------------------------------------
(* _format_tool_use                                                        *)

TruncateLen == 80

\* key in inp
Contains(key, inp) ==
    CASE inp.t = "dict" -> Ok(key \in DOMAIN inp.map)
      [] inp.t = "str" -> Ok(IsSubstring(<<key>>, inp.s))
      [] inp.t = "list" -> Ok(\E i \in 1..Len(inp.items) : inp.items[i] = JStr(<<key>>))
      [] OTHER -> Raise("TypeError")

\* inp[key], reached only when key in inp
Subscript(inp, key) ==
    IF inp.t = "dict" THEN Ok(inp.map[key]) ELSE Raise("TypeError")

\* len(cmd); a str of the model counts one per token, and no command of the
\* model is longer than TruncateLen
PyLen(cmd) ==
    CASE cmd.t = "str" -> Ok(Len(cmd.s))
      [] cmd.t = "list" -> Ok(Len(cmd.items))
      [] cmd.t = "dict" -> Ok(Cardinality(DOMAIN cmd.map))
      [] OTHER -> Raise("TypeError")

\* cmd[:80]
Truncate(cmd) ==
    CASE cmd.t = "str" -> JStr(SubSeq(cmd.s, 1, TruncateLen))
      [] cmd.t = "list" -> JList(SubSeq(cmd.items, 1, TruncateLen))
      [] OTHER -> cmd

\* the backquote character of the f-strings of lines 112-119
Backquote == <<"(backquote)">>

Backticked(v) == Backquote \o Format(v) \o Backquote

\* the rest of an operation once the call x has returned: an exception
\* x raised leaves the operation at once
Bind(x, F(_)) == IF x.exc # "none" THEN x ELSE F(x.val)

\* line 115
CommandText(cmd, n) == IF n > TruncateLen THEN Truncate(cmd) ELSE cmd

\* lines 114-115
CommandDetail(inp) ==
    Bind(Subscript(inp, "command"), LAMBDA cmd :
        Bind(PyLen(cmd), LAMBDA n : Ok(<<Backticked(CommandText(cmd, n))>>)))

\* lines 112, 117, 119
KeyDetail(inp, key) ==
    Bind(Subscript(inp, key), LAMBDA v : Ok(<<Backticked(v)>>))

\* a variant of Detail that tests "command" before "file_path" (C11 tells the
\* two apart)
DetailCommandFirst(inp) ==
    Bind(Contains("command", inp), LAMBDA c :
        IF c THEN CommandDetail(inp)
        ELSE Bind(Contains("file_path", inp), LAMBDA f :
            IF f THEN KeyDetail(inp, "file_path")
            ELSE Bind(Contains("pattern", inp), LAMBDA p :
                IF p THEN KeyDetail(inp, "pattern")
                ELSE Bind(Contains("query", inp), LAMBDA q :
                    IF q THEN KeyDetail(inp, "query") ELSE Ok(<<>>)))))

\* the if/elif chain of lines 111-121: <<detail>>, or <<>> when the else
\* branch returns the line without a detail
Detail(inp) ==
    Bind(Contains("file_path", inp), LAMBDA f :
        IF f THEN KeyDetail(inp, "file_path")
        ELSE Bind(Contains("command", inp), LAMBDA c :
            IF c THEN CommandDetail(inp)
            ELSE Bind(Contains("pattern", inp), LAMBDA p :
                IF p THEN KeyDetail(inp, "pattern")
                ELSE Bind(Contains("query", inp), LAMBDA q :
                    IF q THEN KeyDetail(inp, "query") ELSE Ok(<<>>)))))

\* the return statements of lines 121 and 123
ToolLine(name, detail) ==
    IF detail = <<>>
    THEN <<"> Used tool: **">> \o name \o <<"**">>
    ELSE <<"> Used tool: **">> \o name \o <<"**(">> \o detail[1] \o <<")">>

_format_tool_use(block) ==
    Bind(Detail(Get(block, "input", JDict(EmptyMap))), LAMBDA detail :
        Ok(ToolLine(Format(Get(block, "name", JStr(<<"Unknown">>))), detail)))

---------------------------------------------------------------------------
(* jsonl_to_markdown                                                       *)

\* A line of the file: blank (empty after strip), text json.loads rejects
\* with JSONDecodeError, or the text of a JSON value.
BlankLine == [kind |-> "blank", value |-> None]
GarbageLine == [kind |-> "garbage", value |-> None]
JsonLine(v) == [kind |-> "json", value |-> v]

\* line.strip() is empty
IsBlank(line) == line.kind = "blank"

\* json.loads(line)
json_loads(line) ==
    IF line.kind = "json" THEN Ok(line.value) ELSE Raise("JSONDecodeError")

Header == <<"# Chat History", "\n">>

\* ts_str of lines 154-155, as the f-strings show it
FormattedTs(timestamp) ==
    IF Truthy(timestamp) THEN Format(_format_timestamp(timestamp)) ELSE <<>>

TsStr(entry) == FormattedTs(Get(entry, "timestamp", JStr(<<>>)))

\* entry.get("message", {}).get("content", default)
ContentOf(message, default) ==
    IF IsDict(message) THEN Ok(Get(message, "content", default))
    ELSE Raise("AttributeError")

MessageContent(entry, default) ==
    ContentOf(Get(entry, "message", JDict(EmptyMap)), default)

UserSection(ts_str, content) ==
    <<"\n", "## User", "\n", "*">> \o ts_str \o <<"*", "\n", "\n">> \o content \o <<"\n">>

AssistantHeader(ts_str) ==
    <<"\n", "## Assistant", "\n", "*">> \o ts_str \o <<"*", "\n">>

\* lines 178-180: the part a text block appends
TextPart(text) ==
    IF Truthy(text) /\ text # JStr(<<"(no content)">>)
    THEN Ok(<<(<<"\n">> \o Format(text) \o <<"\n">>)>>)
    ELSE Ok(<<>>)

\* lines 177-183 for a block of the given type
TypedBlockPart(block, block_type) ==
    IF block_type = JStr(<<"text">>) THEN TextPart(Get(block, "text", JStr(<<>>)))
    ELSE IF block_type = JStr(<<"tool_use">>)
    THEN Bind(_format_tool_use(block), LAMBDA line : Ok(<<(<<"\n">> \o line \o <<"\n">>)>>))
    ELSE Ok(<<>>)

\* the part one block appends to section_parts (lines 172-183): <<part>>,
\* or <<>> when the block is skipped
BlockPart(block) ==
    IF ~IsDict(block) THEN Ok(<<>>)
    ELSE TypedBlockPart(block, Get(block, "type", JNull))

\* the for loop of lines 171-183 from block i on
RECURSIVE BlockLoop(_, _, _)
BlockLoop(content, i, section_parts) ==
    IF i > Len(content) THEN Ok(section_parts)
    ELSE Bind(BlockPart(content[i]), LAMBDA part :
             BlockLoop(content, i + 1, section_parts \o part))

\* lines 160-161
UserParts(ts_str, content) ==
    IF IsStr(content) /\ content.s # <<>>
    THEN Ok(<<UserSection(ts_str, content.s)>>)
    ELSE Ok(<<>>)

\* sep.join(parts)
RECURSIVE JoinWith(_, _)
JoinWith(sep, parts) ==
    IF parts = <<>> THEN <<>>
    ELSE IF Len(parts) = 1 THEN parts[1]
    ELSE parts[1] \o <<sep>> \o JoinWith(sep, Tail(parts))

\* "\n".join(parts)
Join(parts) == JoinWith("\n", parts)

\* a variant of SectionIfAny without the test of line 185: the heading is
\* appended even when no block was rendered under it (C9 tells the two apart)
SectionAlways(section_parts) == section_parts

\* lines 185-186: what output_parts is extended with
SectionIfAny(section_parts) == IF Len(section_parts) > 1 THEN section_parts ELSE <<>>

\* lines 166-186
AssistantParts(ts_str, content) ==
    IF ~IsList(content) THEN Ok(<<>>)
    ELSE Bind(BlockLoop(content.items, 1, <<AssistantHeader(ts_str)>>), LAMBDA section_parts :
             Ok(SectionIfAny(section_parts)))

\* a variant of TypedEntryParts without the skip of lines 151-152, in which a
\* summary record is rendered like a user record (C8 tells the two apart)
SummaryAsUser(entry, entry_type) ==
    IF entry_type \in {JStr(<<"user">>), JStr(<<"summary">>)}
    THEN Bind(MessageContent(entry, JStr(<<>>)), LAMBDA content :
             UserParts(TsStr(entry), content))
    ELSE IF entry_type = JStr(<<"assistant">>)
    THEN Bind(MessageContent(entry, JList(<<>>)), LAMBDA content :
             AssistantParts(TsStr(entry), content))
    ELSE Ok(<<>>)

\* lines 151-186 for an entry of the given type
TypedEntryParts(entry, entry_type) ==
    IF entry_type \in {JStr(<<"summary">>), JStr(<<"file-history-snapshot">>)}
    THEN Ok(<<>>)
    ELSE IF entry_type = JStr(<<"user">>)
    THEN Bind(MessageContent(entry, JStr(<<>>)), LAMBDA content :
             UserParts(TsStr(entry), content))
    ELSE IF entry_type = JStr(<<"assistant">>)
    THEN Bind(MessageContent(entry, JList(<<>>)), LAMBDA content :
             AssistantParts(TsStr(entry), content))
    ELSE Ok(<<>>)

\* the parts one decoded entry appends to output_parts (lines 148-186)
EntryParts(entry) ==
    IF ~IsDict(entry) THEN Raise("AttributeError")
    ELSE TypedEntryParts(entry, Get(entry, "type", JNull))

\* a variant of DecodedParts without the try/except of lines 143-146: the
\* JSONDecodeError leaves jsonl_to_markdown (C1 tells the two apart)
DecodeErrorRaised(entry) ==
    IF entry.exc # "none" THEN Raise(entry.exc) ELSE EntryParts(entry.val)

\* lines 143-146: a line json.loads rejects is skipped
DecodedParts(entry) ==
    IF entry.exc = "JSONDecodeError" THEN Ok(<<>>) ELSE EntryParts(entry.val)

\* the parts one line appends to output_parts (lines 139-186)
LineParts(line) ==
    IF IsBlank(line) THEN Ok(<<>>) ELSE DecodedParts(json_loads(line))

\* a variant of Appended that puts the new parts first (C10 tells the two
\* apart)
Prepended(output_parts, parts) == parts \o output_parts

\* output_parts.append(...) of line 161, output_parts.extend(...) of line 186
Appended(output_parts, parts) == output_parts \o parts

\* the for loop of lines 138-186 from line i on
RECURSIVE LineLoop(_, _, _)
LineLoop(lines, i, output_parts) ==
    IF i > Len(lines) THEN Ok(output_parts)
    ELSE Bind(LineParts(lines[i]), LAMBDA parts :
             LineLoop(lines, i + 1, Appended(output_parts, parts)))

jsonl_to_markdown(lines) ==
    Bind(LineLoop(lines, 1, <<Header>>), LAMBDA output_parts : Ok(Join(output_parts)))

---------------------------------------------------------------------------
(* The logs the renderer is run on.                                        *)

MaxLines == 2
MaxBlocks == 2

\* all sequences over S of length 0..n
RECURSIVE SeqsUpTo(_, _)
SeqsUpTo(S, n) ==
    IF n = 0 THEN {<<>>}
    ELSE LET shorter == SeqsUpTo(S, n - 1)
         IN  shorter \cup {Append(q, x) : q \in {r \in shorter : Len(r) = n - 1}, x \in S}

Type(k) == "type" :> JStr(<<k>>)
Message(content) == "message" :> JDict("content" :> content)
Timestamp(ts) == "timestamp" :> JStr(ts)

TextBlock(text) == JDict(Type("text") @@ ("text" :> JStr(text)))
ToolUse(name, input) == JDict(Type("tool_use") @@ ("name" :> JStr(<<name>>)) @@ ("input" :> input))

Hello == <<"Hello">>
HiThere == <<"Hi there!">>
NoContent == <<"(no content)">>

\* blocks every assistant content of the model is built from
Blocks ==
    { TextBlock(HiThere),
      ToolUse("Read", JDict("file_path" :> JStr(<<"/tmp/foo.py">>))) }

\* further blocks, each tried alone
OddBlocks ==
    { TextBlock(NoContent),
      TextBlock(<<>>),
      JDict(Type("text")),
      JDict(Type("thinking")),
      JStr(<<"text">>),
      JDict(Type("tool_use")),
      ToolUse("Bash", JDict(("file_path" :> JStr(<<"a.py">>)) @@ ("command" :> JStr(<<"ls">>)))),
      ToolUse("Bash", JNull),
      ToolUse("Bash", JDict("command" :> JNum(5))) }

\* further contents of two blocks
OddContents ==
    { <<TextBlock(NoContent), TextBlock(HiThere)>>,
      <<TextBlock(NoContent), JDict(Type("thinking"))>>,
      <<JStr(<<"text">>), TextBlock(HiThere)>>,
      <<ToolUse("Bash", JNull), TextBlock(HiThere)>> }

Contents ==
    SeqsUpTo(Blocks, MaxBlocks) \cup {<<b>> : b \in OddBlocks} \cup OddContents

AssistantLines ==
    {JsonLine(JDict(Type("assistant") @@ Message(JList(c)) @@ Timestamp(IsoZ))) : c \in Contents}
        \cup { JsonLine(JDict(Type("assistant"))),
               JsonLine(JDict(Type("assistant") @@ Message(JStr(HiThere)))),
               JsonLine(JDict(Type("assistant") @@ ("message" :> JNull))) }

UserLines ==
    { JsonLine(JDict(Type("user") @@ Message(JStr(Hello)) @@ Timestamp(IsoZ))),
      JsonLine(JDict(Type("user") @@ Message(JStr(<<"Bye">>)) @@ Timestamp(NotIso))),
      JsonLine(JDict(Type("user") @@ Message(JStr(Hello)))),
      JsonLine(JDict(Type("user") @@ Message(JStr(<<>>)))),
      JsonLine(JDict(Type("user") @@ Message(JList(<<TextBlock(Hello)>>)))),
      JsonLine(JDict(Type("user"))),
      JsonLine(JDict(Type("user") @@ ("message" :> JStr(Hello)))) }

OtherLines ==
    { BlankLine,
      GarbageLine,
      JsonLine(JList(<<>>)),
      JsonLine(JStr(Hello)),
      JsonLine(JDict(Type("summary") @@ ("summary" :> JStr(<<"Test summary">>)))),
      JsonLine(JDict(Type("summary") @@ Message(JStr(Hello)) @@ Timestamp(IsoZ))),
      JsonLine(JDict(Type("file-history-snapshot") @@ Message(JList(<<TextBlock(HiThere)>>)))),
      JsonLine(JDict(Type("system") @@ Message(JStr(Hello)))),
      JsonLine(JDict(Message(JStr(Hello)))) }

Lines == UserLines \cup AssistantLines \cup OtherLines

\* the logs of n lines
Logs(n) == [1..n -> Lines]

---------------------------------------------------------------------------
(* Character strings: comparison, numbers, slugs.                          *)

\* the characters of the model's names, in code point order
Alphabet ==
    <<" ", "-", "0", "1", "2", "3", "4", "5", "6", "7", "8", "9",
      "A", "B", "C", "a", "b", "c", "f">>

Ord(c) == CHOOSE i \in 1..Len(Alphabet) : Alphabet[i] = c

DigitChars == <<"0", "1", "2", "3", "4", "5", "6", "7", "8", "9">>

IsDigit(c) == \E i \in 1..Len(DigitChars) : DigitChars[i] = c

\* a < b on two str
RECURSIVE StrLess(_, _)
StrLess(a, b) ==
    IF b = <<>> THEN FALSE
    ELSE IF a = <<>> THEN TRUE
    ELSE IF a[1] = b[1] THEN StrLess(Tail(a), Tail(b))
    ELSE Ord(a[1]) < Ord(b[1])

\* sorted(S, reverse=True)
RECURSIVE SortedReverse(_)
GreatestFirst(S, m) == <<m>> \o SortedReverse(S \ {m})

SortedReverse(S) ==
    IF S = {} THEN <<>>
    ELSE GreatestFirst(S, CHOOSE x \in S : \A y \in S \ {x} : StrLess(y, x))

\* f"{n}" for n >= 0
RECURSIVE IntStr(_)
IntStr(n) ==
    IF n < 10 THEN <<DigitChars[n + 1]>>
    ELSE IntStr(n \div 10) \o <<DigitChars[(n % 10) + 1]>>

\* f"{n:02d}" for n >= 0
Pad2(n) == IF n < 10 THEN <<"0">> \o IntStr(n) ELSE IntStr(n)

\* int(digits)
RECURSIVE StrInt(_)
StrInt(digits) ==
    IF digits = <<>> THEN 0
    ELSE 10 * StrInt(SubSeq(digits, 1, Len(digits) - 1))
           + ((CHOOSE i \in 1..Len(DigitChars) : DigitChars[i] = digits[Len(digits)]) - 1)

\* k.lower().replace(" ", "-")
SlugChar(c) ==
    CASE c = "A" -> "a"
      [] c = "B" -> "b"
      [] c = "C" -> "c"
      [] c = " " -> "-"
      [] OTHER -> c

SlugWord(k) == [i \in 1..Len(k) |-> SlugChar(k[i])]

\* "-".join(k.lower().replace(" ", "-") for k in keywords)
KeywordSlug(keywords) == JoinWith("-", [i \in 1..Len(keywords) |-> SlugWord(keywords[i])])

\* s.strip()
RECURSIVE Strip(_)
Strip(s) ==
    IF s = <<>> THEN s
    ELSE IF s[1] = " " THEN Strip(Tail(s))
    ELSE IF s[Len(s)] = " " THEN Strip(SubSeq(s, 1, Len(s) - 1))
    ELSE s

HasPrefix(s, p) == Len(s) >= Len(p) /\ SubSeq(s, 1, Len(p)) = p

---------------------------------------------------------------------------
(* get_next_seq, create_prompt_dir                                         *)

Dates ==
    << [year |-> 2026, month |-> 2, day |-> 5],
       [year |-> 2026, month |-> 12, day |-> 5] >>

\* f"{now.month}-{now.day:02d}-{now.year % 100}"
DatePrefix(d) == IntStr(d.month) \o <<"-">> \o Pad2(d.day) \o <<"-">> \o IntStr(d.year % 100)

\* length of the run of digits s starts with
RECURSIVE DigitRun(_)
DigitRun(s) == IF s # <<>> /\ IsDigit(s[1]) THEN 1 + DigitRun(Tail(s)) ELSE 0

\* int(match.group(1)) of re.match(rf"^{date_prefix}-(\d+)-", basename), or 0
\* when there is no match (0 leaves max_seq as it is)
GroupInt(rest, n) ==
    IF n >= 1 /\ Len(rest) > n /\ rest[n + 1] = "-" THEN StrInt(SubSeq(rest, 1, n)) ELSE 0

DigitsThenDash(rest) == GroupInt(rest, DigitRun(rest))

MatchAfter(p, basename) ==
    IF HasPrefix(basename, p)
    THEN DigitsThenDash(SubSeq(basename, Len(p) + 1, Len(basename)))
    ELSE 0

MatchSeq(date_prefix, basename) == MatchAfter(date_prefix \o <<"-">>, basename)

SetMax(S) == CHOOSE m \in S : \A x \in S : x <= m

SetMin(S) == CHOOSE m \in S : \A x \in S : m <= x

\* the place of the "]" that closes the character class opening at pat[1],
\* 0 when there is none (fnmatch.translate: a "!" and then a "]" right after
\* the "[" belong to the class)
ClassStart(pat) == IF Len(pat) >= 2 /\ pat[2] = "!" THEN 3 ELSE 2

ClassEnds(pat) == {j \in (ClassStart(pat) + 1)..Len(pat) : pat[j] = "]"}

ClassEnd(pat) == IF ClassEnds(pat) = {} THEN 0 ELSE SetMin(ClassEnds(pat))

\* c is in the class pat[1..ClassEnd(pat)] (classes without ranges)
InClass(pat, c) ==
    (\E j \in ClassStart(pat)..(ClassEnd(pat) - 1) : pat[j] = c) <=> (ClassStart(pat) = 2)

\* fnmatch.fnmatchcase(name, pat): "*" is any run of characters, "?" one
\* character, "[...]" one character of the class, a "[" that nothing closes
\* and every other character itself
RECURSIVE fnmatch(_, _)
fnmatch(name, pat) ==
    IF pat = <<>> THEN name = <<>>
    ELSE IF Head(pat) = "*"
    THEN \E k \in 0..Len(name) : fnmatch(SubSeq(name, k + 1, Len(name)), Tail(pat))
    ELSE IF name = <<>> THEN FALSE
    ELSE IF Head(pat) = "?" THEN fnmatch(Tail(name), Tail(pat))
    ELSE IF Head(pat) = "[" /\ ClassEnd(pat) # 0
    THEN /\ InClass(pat, Head(name))
         /\ fnmatch(Tail(name), SubSeq(pat, ClassEnd(pat) + 1, Len(pat)))
    ELSE Head(pat) = Head(name) /\ fnmatch(Tail(name), Tail(pat))

\* the history directories --history-dir names: the last component of the
\* path, one of plain characters and one with a bracket in it
PlainDir == <<"h">>

BracketDir == <<"h", "[", "1", "]">>

HistoryDirs == {PlainDir, BracketDir}

\* glob.glob(os.path.join(history_dir, pattern)) where hdir is the
\* only directory beside its parent's other entries and names are its
\* entries: glob reads the directory part as a pattern too, so the entries
\* are listed only when the name of hdir matches itself as a pattern
glob(hdir, pattern, names) ==
    IF fnmatch(hdir, hdir)
    THEN {d \in names : fnmatch(d, pattern)}
    ELSE {}

get_next_seq(date_prefix, hdir, names) ==
    SetMax({0} \cup {MatchSeq(date_prefix, d) :
                         d \in glob(hdir, date_prefix \o <<"-", "*">>, names)}) + 1

\* the directory name create_prompt_dir builds (lines 68-74); seq_override
\* is None or a number
NameOf(date_prefix, seq, keyword_slug) ==
    date_prefix \o <<"-">> \o IntStr(seq) \o <<"-">> \o keyword_slug

SeqOf(date_prefix, hdir, names, seq_override) ==
    IF seq_override # None THEN seq_override.n
    ELSE get_next_seq(date_prefix, hdir, names)

DirNameFor(date_prefix, hdir, names, keywords, seq_override) ==
    NameOf(date_prefix, SeqOf(date_prefix, hdir, names, seq_override),
           KeywordSlug(keywords))

DirName(date, hdir, names, keywords, seq_override) ==
    DirNameFor(DatePrefix(date), hdir, names, keywords, seq_override)

File(c) == [t |-> "file", content |-> c]

\* a directory os.makedirs has just created
\* (indexed: the number of files prompt2.md, prompt3.md, ... it holds)
NewDir ==
    [session_id |-> None, prompt_md |-> FALSE, indexed |-> 0,
     chat_jsonl |-> None, chat_md |-> None]

\* os.makedirs(dirpath, exist_ok=True)
MakeDirs(d, name) == IF name \in DOMAIN d THEN d ELSE d @@ (name :> NewDir)

---------------------------------------------------------------------------
(* load_config, save_chat, launch_claude, find_session                     *)

CONFIG_DEFAULTS == [always_launch |-> FALSE, skip_permissions |-> FALSE]

\* load_config: the stored config, or the defaults when there is no file
load_config(cfg) == IF cfg = None THEN CONFIG_DEFAULTS ELSE cfg

\* str(uuid.uuid4()), the k-th identifier handed out
Uuid(k) == <<"f">> \o IntStr(k)

\* logs the claude subprocess writes, by the name the model gives them
GoodLog ==
    << JsonLine(JDict(Type("user") @@ Message(JStr(Hello)) @@ Timestamp(IsoZ))),
       JsonLine(JDict(Type("assistant") @@ Message(JList(<<TextBlock(HiThere)>>)))) >>

BadLog ==
    << JsonLine(JDict(Type("user") @@ Message(JStr(Hello)))),
       JsonLine(JDict(Type("user") @@ ("message" :> JStr(Hello)))) >>

ShortLog ==
    << JsonLine(JDict(Type("user") @@ Message(JStr(<<"Bye">>)))) >>

\* the lines of a log file
LogLines(name) ==
    CASE name = "good" -> GoodLog
      [] name = "short" -> ShortLog
      [] OTHER -> BadLog

\* subprocess.run(cmd, env=env) of lines 243 and 409: Ctrl-C while claude
\* runs raises KeyboardInterrupt in the caller
subprocess_run(outcome) ==
    IF outcome.end = "KeyboardInterrupt" THEN Raise("KeyboardInterrupt") ELSE Ok(None)

\* a variant of Interruptible without the except clause (C19 tells the two
\* apart)
Uncaught(ran) == ran

\* try ... except KeyboardInterrupt: pass (lines 242-245 and 408-411)
Interruptible(ran) == IF ran.exc = "KeyboardInterrupt" THEN Ok(None) ELSE ran

\* What the claude subprocess leaves in the projects directory for the
\* session it ran: outcome.log is None (no log written) or File(log).
Subprocess(proj, session_id, outcome) ==
    IF outcome.log = None THEN proj
    ELSE [k \in DOMAIN proj \cup {session_id} |->
              IF k = session_id THEN outcome.log.content ELSE proj[k]]

\* lines 214-217: chat_history.md is written unless rendering raised
WriteMarkdown(copied, prompt_dir, md_content) ==
    IF md_content.exc # "none"
    THEN [exc |-> md_content.exc, dirs |-> copied]
    ELSE [exc |-> "none",
          dirs |-> [copied EXCEPT ![prompt_dir].chat_md = File(md_content.val)]]

\* a variant of save_chat that takes a missing log for an empty one (C14
\* tells the two apart)
save_chat_missing_as_empty(d, proj, session_id, prompt_dir) ==
    IF prompt_dir \notin DOMAIN d
    THEN [exc |-> "FileNotFoundError", dirs |-> d]
    ELSE IF session_id \notin DOMAIN proj
    THEN [exc |-> "none",
          dirs |-> [d EXCEPT ![prompt_dir].chat_md = File(Join(<<Header>>))]]
    ELSE WriteMarkdown([d EXCEPT ![prompt_dir].chat_jsonl = File(proj[session_id])],
                       prompt_dir, jsonl_to_markdown(LogLines(proj[session_id])))

\* save_chat (lines 201-218): the exception that leaves it and the session
\* directories after it
save_chat(d, proj, session_id, prompt_dir) ==
    IF session_id \notin DOMAIN proj
    THEN [exc |-> "SystemExit", dirs |-> d]
    ELSE IF prompt_dir \notin DOMAIN d
    THEN [exc |-> "FileNotFoundError", dirs |-> d]
    ELSE WriteMarkdown([d EXCEPT ![prompt_dir].chat_jsonl = File(proj[session_id])],
                       prompt_dir, jsonl_to_markdown(LogLines(proj[session_id])))

\* the command line handed to subprocess.run
Cmd(skip, resume, session_id) ==
    [skip_permissions |-> skip, resume |-> resume, session_id |-> session_id]

\* lines 250 and 255: what launch_claude returns once save_chat has run
LaunchSaved(saved, after, cmd, session_id) ==
    [exc |-> saved.exc, dirs |-> saved.dirs, projects |-> after, cmd |-> cmd,
     session_id |-> IF saved.exc = "none" THEN JStr(session_id) ELSE None]

\* lines 248-255: the log is saved if the subprocess left one
LaunchEnded(marked, after, cmd, session_id, prompt_dir) ==
    IF session_id \in DOMAIN after
    THEN LaunchSaved(save_chat(marked, after, session_id, prompt_dir), after, cmd, session_id)
    ELSE [exc |-> "none", dirs |-> marked, projects |-> after, cmd |-> cmd,
          session_id |-> JStr(session_id)]

\* lines 242-255 for what the try statement ended with
LaunchRan(ran, marked, after, cmd, session_id, prompt_dir) ==
    IF ran.exc # "none"
    THEN [exc |-> ran.exc, dirs |-> marked, projects |-> after, cmd |-> cmd,
          session_id |-> None]
    ELSE LaunchEnded(marked, after, cmd, session_id, prompt_dir)

\* lines 235-255 with the directories as line 228 left them; marker_at_start
\* is the marker file as the subprocess finds it when it starts
LaunchMarked(marked, proj, session_id, prompt_dir, skip_permissions, outcome) ==
    [marker_at_start |-> marked[prompt_dir].session_id]
        @@ LaunchRan(Interruptible(subprocess_run(outcome)), marked,
                     Subprocess(proj, session_id, outcome),
                     Cmd(skip_permissions, FALSE, session_id), session_id, prompt_dir)

\* lines 226-255 with the identifier generated at line 223
LaunchWith(d, proj, session_id, prompt_dir, skip_permissions, outcome) ==
    IF prompt_dir \notin DOMAIN d
    THEN [exc |-> "FileNotFoundError", dirs |-> d, projects |-> proj,
          cmd |-> None, session_id |-> None, marker_at_start |-> None]
    ELSE LaunchMarked([d EXCEPT ![prompt_dir].session_id = JStr(session_id)],
                      proj, session_id, prompt_dir, skip_permissions, outcome)

\* launch_claude (lines 223-255), with the k-th identifier
launch_claude(d, proj, k, prompt_dir, skip_permissions, outcome) ==
    LaunchWith(d, proj, Uuid(k), prompt_dir, skip_permissions, outcome)

\* return None, None
NotFound == [exc |-> "none", session_id |-> None, dirpath |-> None]

\* the identifier a marker file holds, as find_session reads it
StoredId(d, entry) == Strip(d[entry].session_id.s)

\* a variant of DirResult that answers "not found" for a directory without
\* a marker file (C5 tells the two apart)
DirResultConflated(d, entry) ==
    IF d[entry].session_id = None THEN NotFound
    ELSE [exc |-> "none", session_id |-> JStr(StoredId(d, entry)), dirpath |-> JStr(entry)]

\* lines 282-286 and 294-298: the matched directory with its identifier
DirResult(d, entry) ==
    [exc |-> "none",
     session_id |-> IF d[entry].session_id # None THEN JStr(StoredId(d, entry)) ELSE None,
     dirpath |-> JStr(entry)]


\* a variant of FirstOf that returns the last entry of the tier (C16 tells
\* the two apart)
LastOf(d, entries, matches) == DirResult(d, entries[SetMax(matches)])

\* the first entry of a tier that has a match
FirstOf(d, entries, matches) == DirResult(d, entries[SetMin(matches)])

\* a variant of Tiers with the first two loops merged into one pass, which
\* returns the first entry that equals or contains the query (C4 tells the
\* two apart)
TiersMerged(query, d, entries) ==
    IF \E i \in 1..Len(entries) : IsSubstring(query, entries[i])
    THEN FirstOf(d, entries, {i \in 1..Len(entries) : IsSubstring(query, entries[i])})
    ELSE IF \E i \in 1..Len(entries) :
               d[entries[i]].session_id # None /\ StoredId(d, entries[i]) = query
    THEN FirstOf(d, entries, {i \in 1..Len(entries) :
               d[entries[i]].session_id # None /\ StoredId(d, entries[i]) = query})
    ELSE NotFound

\* the three loops of lines 277-308 over the sorted entries
Tiers(query, d, entries) ==
    IF \E i \in 1..Len(entries) : entries[i] = query
    THEN FirstOf(d, entries, {i \in 1..Len(entries) : entries[i] = query})
    ELSE IF \E i \in 1..Len(entries) : IsSubstring(query, entries[i])
    THEN FirstOf(d, entries, {i \in 1..Len(entries) : IsSubstring(query, entries[i])})
    ELSE IF \E i \in 1..Len(entries) :
               d[entries[i]].session_id # None /\ StoredId(d, entries[i]) = query
    THEN FirstOf(d, entries, {i \in 1..Len(entries) :
               d[entries[i]].session_id # None /\ StoredId(d, entries[i]) = query})
    ELSE NotFound

\* sorted(os.listdir(history_dir), reverse=True) of line 274
listdir(exists, d) ==
    IF exists THEN Ok(SortedReverse(DOMAIN d)) ELSE Raise("FileNotFoundError")

\* lines 274-310
Listed(query, d, entries) ==
    IF entries.exc # "none"
    THEN [exc |-> entries.exc, session_id |-> None, dirpath |-> None]
    ELSE Tiers(query, d, entries.val)

\* a variant of find_session without the test of lines 271-272 (C6 tells the
\* two apart)
find_session_unguarded(query, exists, d) == Listed(query, d, listdir(exists, d))

\* find_session (lines 271-310)
find_session(query, exists, d) ==
    IF ~exists THEN NotFound ELSE Listed(query, d, listdir(exists, d))

---------------------------------------------------------------------------
(* main                                                                    *)

\* use_skip of lines 396-399 and 469-472; flag is "always", "no" or "none"
UseSkip(flag, cfg) ==
    IF flag = "no" THEN FALSE ELSE flag = "always" \/ load_config(cfg).skip_permissions

\* main with --save-chat (lines 378-381)
SaveChatExit(r) ==
    [exc |-> r.exc,
     message |-> IF r.exc = "SystemExit" THEN "Chat history not found" ELSE "",
     dirs |-> r.dirs]

main_save_chat(d, proj, session_id, prompt_dir) ==
    SaveChatExit(save_chat(d, proj, session_id, prompt_dir))

\* lines 415-418: the log is saved if there is one after the subprocess
ResumeEnded(d, after, cmd, session_id, prompt_dir) ==
    IF session_id \in DOMAIN after
    THEN [message |-> "", cmd |-> cmd, projects |-> after]
             @@ save_chat(d, after, session_id, prompt_dir)
    ELSE [exc |-> "none", message |-> "", cmd |-> cmd, dirs |-> d, projects |-> after]

\* lines 408-418 for what the try statement ended with
ResumeRan(ran, d, after, cmd, session_id, prompt_dir) ==
    IF ran.exc # "none"
    THEN [exc |-> ran.exc, message |-> "", cmd |-> cmd, dirs |-> d, projects |-> after]
    ELSE ResumeEnded(d, after, cmd, session_id, prompt_dir)

\* lines 385-418 for what find_session returned
Resume(found, d, proj, cfg, skip_flag, outcome) ==
    IF found.exc # "none"
    THEN [exc |-> found.exc, message |-> "", cmd |-> None, dirs |-> d, projects |-> proj]
    ELSE IF found.session_id = None /\ found.dirpath = None
    THEN [exc |-> "SystemExit", message |-> "No matching session found",
          cmd |-> None, dirs |-> d, projects |-> proj]
    ELSE IF found.session_id = None
    THEN [exc |-> "SystemExit", message |-> "Found directory but no .session_id file",
          cmd |-> None, dirs |-> d, projects |-> proj]
    ELSE ResumeRan(Interruptible(subprocess_run(outcome)), d,
                   Subprocess(proj, found.session_id.s, outcome),
                   Cmd(UseSkip(skip_flag, cfg), TRUE, found.session_id.s),
                   found.session_id.s, found.dirpath.s)

\* line 385 keeps what find_session returned in session_id, dirpath
ResumeFound(found, d, proj, cfg, skip_flag, outcome) ==
    [found |-> found] @@ Resume(found, d, proj, cfg, skip_flag, outcome)

\* main with --resume and without --save-chat (lines 383-418)
main_resume(exists, d, proj, cfg, query, skip_flag, outcome) ==
    ResumeFound(find_session(query, exists, d), d, proj, cfg, skip_flag, outcome)

\* the config file after lines 421-446
SkipFlagSaved(c1, a) ==
    IF a.always_launch /\ a.keywords = <<>> THEN c1
    ELSE IF a.skip = "always" THEN [load_config(c1) EXCEPT !.skip_permissions = TRUE]
    ELSE IF a.skip = "no" THEN [load_config(c1) EXCEPT !.skip_permissions = FALSE]
    ELSE c1

ConfigAfterFlags(cfg, a) ==
    SkipFlagSaved(IF a.always_launch
                  THEN [load_config(cfg) EXCEPT !.always_launch = TRUE]
                  ELSE cfg, a)

\* should_launch of line 468
ShouldLaunch(cfg, a) == a.launch \/ (load_config(cfg).always_launch /\ ~a.no_launch)

\* what main leaves behind when it neither creates nor launches
Untouched(d, proj, cfg2) ==
    [dirs |-> d, projects |-> proj, config |-> cfg2, cmd |-> None,
     created |-> FALSE, launched |-> FALSE]

\* line 476
Launched(r, cfg2) ==
    [exc |-> r.exc, message |-> "Created", dirs |-> r.dirs, projects |-> r.projects,
     config |-> cfg2, cmd |-> r.cmd, created |-> TRUE, launched |-> TRUE]

\* lines 451-476 with the directory name of line 74
CreateAndLaunch(d, proj, cfg2, k, a, outcome, dirname) ==
    IF a.dry_run
    THEN [exc |-> "none", message |-> "Would create", dirs |-> MakeDirs(d, dirname),
          created |-> TRUE] @@ Untouched(d, proj, cfg2)
    ELSE IF ~ShouldLaunch(cfg2, a)
    THEN [exc |-> "none", message |-> "Created",
          dirs |-> [MakeDirs(d, dirname) EXCEPT ![dirname].prompt_md = TRUE],
          created |-> TRUE] @@ Untouched(d, proj, cfg2)
    ELSE Launched(launch_claude([MakeDirs(d, dirname) EXCEPT ![dirname].prompt_md = TRUE],
                                proj, k, dirname, UseSkip(a.skip, cfg2), outcome), cfg2)

\* lines 427-476 with the config file lines 421-446 leave
AfterFlags(date, d, proj, cfg2, k, a, outcome) ==
    IF a.keywords = <<>>
    THEN IF a.always_launch \/ a.skip # "none"
         THEN [exc |-> "none", message |-> "Config saved"] @@ Untouched(d, proj, cfg2)
         ELSE [exc |-> "SystemExit", message |-> "At least one keyword is required"]
                  @@ Untouched(d, proj, cfg2)
    ELSE CreateAndLaunch(d, proj, cfg2, k, a, outcome,
                         DirName(date, history_dir, DOMAIN d, a.keywords, a.seq))

\* main without --save-chat and --resume (lines 421-476), with the k-th identifier
main_create(date, d, proj, cfg, k, a, outcome) ==
    AfterFlags(date, d, proj, ConfigAfterFlags(cfg, a), k, a, outcome)

---------------------------------------------------------------------------
(* The inputs of the session operations.                                   *)

MaxDirs == 2
MaxLaunches == 2

\* keyword lists given on the command line
KeywordLists ==
    { << <<"a">> >>,
      << <<"a">>, <<"B", " ", "c">> >> }

SeqOverrides == {None, JNum(1)}

\* logs the claude subprocess writes
FsLogs == {"good"}

\* further logs: another one that renders, and one whose second record has a
\* message that is no mapping
AllLogs == {"good", "short", "bad"}

\* how a subprocess run ends and what it leaves behind
OutcomesWith(logs) ==
    [log : {None} \cup {File(l) : l \in logs}, end : {"exit", "KeyboardInterrupt"}]

Outcomes == OutcomesWith(FsLogs)

SessionIds == {Uuid(k) : k \in 1..MaxLaunches}

\* query strings tried against the history directory
Queries(d) == DOMAIN d \cup {Uuid(1), <<"a">>, <<"9">>}

SkipFlags == {"always", "no", "none"}

\* command lines of main without --save-chat and --resume; without keywords
\* main returns at line 428 or 449 before it reads the other flags
CreateArgs ==
    { a \in [launch : BOOLEAN, dry_run : BOOLEAN, always_launch : BOOLEAN,
             no_launch : BOOLEAN, skip : SkipFlags, seq : {None},
             keywords : {<<>>, << <<"a">> >>}] :
        a.keywords = <<>> => ~a.launch /\ ~a.dry_run /\ ~a.no_launch /\ a.seq = None }

NoDirs == [n \in {} |-> NewDir]
NoLogs == [k \in {} |-> "good"]

\* a subprocess outcome is drawn only for a call that runs the subprocess
OutcomesOf(runs) == IF runs THEN Outcomes ELSE {[log |-> None, end |-> "exit"]}

\* --dangerously-skip-permissions is read only by a call that runs the subprocess
SkipFlagsOf(runs) == IF runs THEN SkipFlags ELSE {"none"}

---------------------------------------------------------------------------
(* The session operations as a state machine: the history directory, the   *)
(* projects directory of claude, the config file and the last call's       *)
(* return.                                                                 *)

Init ==
    /\ log = <<>>
    /\ result = None
    /\ now = 1
    /\ history_dir = PlainDir
    /\ history_exists = FALSE
    /\ dirs = NoDirs
    /\ projects = NoLogs
    /\ config = None
    /\ uuid_count = 0
    /\ _active_session_dir = None
    /\ ret = [op |-> "init"]

\* the clock moves to the next date
NextDay ==
    /\ now < Len(Dates)
    /\ now' = now + 1
    /\ ret' = [op |-> "next_day"]
    /\ UNCHANGED <<history_dir, history_exists, dirs, projects, config, uuid_count,
                   _active_session_dir, rvars>>

Create(keyword_lists, overrides) ==
    \E keywords \in keyword_lists, seq_override \in overrides :
    \E dirname \in {DirName(Dates[now], history_dir, DOMAIN dirs, keywords, seq_override)} :
        /\ dirname \in DOMAIN dirs \/ Cardinality(DOMAIN dirs) < MaxDirs
        /\ dirs' = MakeDirs(dirs, dirname)
        /\ history_exists' = TRUE
        /\ ret' = [op |-> "create_prompt_dir", dirpath |-> JStr(dirname),
                   existed |-> dirname \in DOMAIN dirs, seq_override |-> seq_override]
        /\ UNCHANGED <<now, history_dir, projects, config, uuid_count,
                       _active_session_dir, rvars>>

CreatePromptDir == Create(KeywordLists, SeqOverrides)

\* create_prompt_dir with one keyword and no --seq
CreateOne == Create({ << <<"a">> >> }, {None})

Launch(outcomes) ==
    \E prompt_dir \in DOMAIN dirs, skip_permissions \in BOOLEAN, outcome \in outcomes :
    \E r \in {launch_claude(dirs, projects, uuid_count + 1, prompt_dir,
                            skip_permissions, outcome)} :
        /\ uuid_count < MaxLaunches
        /\ uuid_count' = uuid_count + 1
        /\ dirs' = r.dirs
        /\ projects' = r.projects
        /\ ret' = [op |-> "launch_claude", prompt_dir |-> prompt_dir, exc |-> r.exc,
                   session_id |-> r.session_id, cmd |-> r.cmd, outcome |-> outcome,
                   marker_at_start |-> r.marker_at_start]
        /\ UNCHANGED <<now, history_dir, history_exists, config,
                       _active_session_dir, rvars>>

LaunchClaude == Launch(Outcomes)

SaveChat ==
    \E session_id \in SessionIds, prompt_dir \in DOMAIN dirs :
    \E r \in {save_chat(dirs, projects, session_id, prompt_dir)} :
        /\ dirs' = r.dirs
        /\ ret' = [op |-> "save_chat", session_id |-> session_id,
                   prompt_dir |-> prompt_dir, exc |-> r.exc]
        /\ UNCHANGED <<now, history_dir, history_exists, projects, config, uuid_count,
                       _active_session_dir, rvars>>

FindSession ==
    \E query \in Queries(dirs) :
    \E r \in {find_session(query, history_exists, dirs)} :
        /\ ret' = [op |-> "find_session", query |-> query, exc |-> r.exc,
                   session_id |-> r.session_id, dirpath |-> r.dirpath]
        /\ UNCHANGED <<now, history_dir, history_exists, dirs, projects, config, uuid_count,
                       _active_session_dir, rvars>>

Next ==
    \/ NextDay
    \/ CreatePromptDir
    \/ LaunchClaude
    \/ SaveChat
    \/ FindSession

Spec == Init /\ [][Next]_vars

---------------------------------------------------------------------------
(* get_next_seq and create_prompt_dir with sequence numbers that leave     *)
(* gaps.                                                                   *)

\* sequence numbers given with --seq: gaps, and a number of two digits
GapOverrides == {None, JNum(1), JNum(3), JNum(12)}

CreateAnySeq == Create(KeywordLists, GapOverrides)

GetNextSeq ==
    \E date \in 1..Len(Dates) :
        /\ ret' = [op |-> "get_next_seq", date_prefix |-> DatePrefix(Dates[date]),
                   seq |-> get_next_seq(DatePrefix(Dates[date]), history_dir, DOMAIN dirs)]
        /\ UNCHANGED <<now, history_dir, history_exists, dirs, projects, config, uuid_count,
                       _active_session_dir, rvars>>

SeqNext ==
    \/ NextDay
    \/ CreateAnySeq
    \/ GetNextSeq

\* the history directory is any of HistoryDirs
SeqInit ==
    /\ log = <<>>
    /\ result = None
    /\ now = 1
    /\ history_dir \in HistoryDirs
    /\ history_exists = FALSE
    /\ dirs = NoDirs
    /\ projects = NoLogs
    /\ config = None
    /\ uuid_count = 0
    /\ _active_session_dir = None
    /\ ret = [op |-> "init"]

SpecSeq == SeqInit /\ [][SeqNext]_vars

---------------------------------------------------------------------------
(* find_session over directories named after a session identifier.         *)

\* keyword lists among which one is the first identifier launch_claude
\* hands out
IdKeywordLists == KeywordLists \cup { << Uuid(1) >> }

CreateNamed == Create(IdKeywordLists, {None})

FindNext ==
    \/ CreateNamed
    \/ LaunchClaude
    \/ FindSession

SpecFind == Init /\ [][FindNext]_vars

---------------------------------------------------------------------------
(* The MCP server (mcp_server.py): init_session, continue_session and      *)
(* get_session_info around the active session directory.                   *)

\* s.split(): the words of s between runs of blanks
RECURSIVE SplitFrom(_, _)
WordDone(cur) == IF cur = <<>> THEN <<>> ELSE <<cur>>

SplitFrom(s, cur) ==
    IF s = <<>> THEN WordDone(cur)
    ELSE IF Head(s) = " " THEN WordDone(cur) \o SplitFrom(Tail(s), <<>>)
    ELSE SplitFrom(Tail(s), Append(cur, Head(s)))

Split(s) == SplitFrom(s, <<>>)

\* not v, for v None or a str
Falsy(v) == v = None \/ v = JStr(<<>>)

\* get_next_prompt_index(session_dir): prompt.md is the first prompt, the
\* files prompt2.md, prompt3.md, ... follow
get_next_prompt_index(d, session_dir) == d[session_dir].indexed + 2

\* write_indexed_prompt_md(session_dir, index, prompt_text)
write_indexed_prompt_md(d, session_dir) == [d EXCEPT ![session_dir].indexed = @ + 1]

\* what read_current_session_marker() can return: nothing, or the
\* directory a launch has recorded
CurrentMarkers(d) == {None} \cup {JStr(name) : name \in DOMAIN d}

\* lines 55-69: the last of the sorted directories that hold a prompt.md
Candidates(d) == {name \in DOMAIN d : ~HasPrefix(name, <<"_">>) /\ d[name].prompt_md}

LastCandidate(d) ==
    IF Candidates(d) = {} THEN None ELSE JStr(SortedReverse(Candidates(d))[1])

\* _find_latest_session_dir() (lines 40-69), marker being what
\* read_current_session_marker() returned
_find_latest_session_dir(marker, exists, d) ==
    IF ~Falsy(marker) THEN marker
    ELSE IF ~exists THEN None
    ELSE LastCandidate(d)

\* lines 83-91
InitCreated(d, dirname) ==
    [error |-> "none", session_dir |-> JStr(dirname),
     dirs |-> [MakeDirs(d, dirname) EXCEPT ![dirname].prompt_md = TRUE]]

\* lines 79-91
InitLogicFor(keyword_list, date, hdir, d) ==
    IF keyword_list = <<>>
    THEN [error |-> "At least one keyword is required.", dirs |-> d]
    ELSE InitCreated(d, DirName(date, hdir, DOMAIN d, keyword_list, None))

\* _init_session_logic (lines 72-91), history_dir being
\* get_default_history_dir()
_init_session_logic(keywords, date, hdir, d) ==
    InitLogicFor(Split(Strip(keywords)), date, hdir, d)

\* lines 153-166
InitSessionDone(res, active) ==
    IF res.error # "none"
    THEN [error |-> res.error, target |-> None, active |-> active, dirs |-> res.dirs]
    ELSE [error |-> "none", target |-> res.session_dir, active |-> res.session_dir,
          dirs |-> res.dirs]

\* the tool init_session (lines 140-166)
init_session(keywords, date, hdir, d, active) ==
    InitSessionDone(_init_session_logic(keywords, date, hdir, d), active)

\* _continue_session_logic (lines 94-110)
_continue_session_logic(session_dir, d) ==
    IF session_dir \notin DOMAIN d
    THEN [error |-> "Session directory not found", dirs |-> d]
    ELSE [error |-> "none", prompt_index |-> get_next_prompt_index(d, session_dir),
          session_dir |-> JStr(session_dir), dirs |-> write_indexed_prompt_md(d, session_dir)]

\* session_dir or _active_session_dir (lines 185 and 221)
Either(session_dir, active) == IF session_dir # <<>> THEN JStr(session_dir) ELSE active

\* lines 185-187 and 221-223: latest is what _find_latest_session_dir()
\* returns when it is called
TargetDir(session_dir, active, latest) ==
    IF Falsy(Either(session_dir, active)) THEN latest ELSE Either(session_dir, active)

\* lines 194-207
ContinueDone(res, target, active) ==
    IF res.error # "none"
    THEN [error |-> res.error, target |-> target, active |-> active, dirs |-> res.dirs]
    ELSE [error |-> "none", target |-> target, active |-> res.session_dir,
          dirs |-> res.dirs, prompt_index |-> res.prompt_index]

\* lines 188-207
ContinueOn(target, d, active) ==
    IF Falsy(target)
    THEN [error |-> "No active session found. Use init_session first",
          target |-> None, active |-> active, dirs |-> d]
    ELSE ContinueDone(_continue_session_logic(target.s, d), target, active)

\* the tool continue_session (lines 169-207)
continue_session(session_dir, marker, exists, d, active) ==
    ContinueOn(TargetDir(session_dir, active, _find_latest_session_dir(marker, exists, d)),
               d, active)

\* _get_session_info_logic (lines 113-132)
_get_session_info_logic(session_dir, d) ==
    IF session_dir \notin DOMAIN d
    THEN [error |-> "Session directory not found"]
    ELSE [error |-> "none", session_dir |-> JStr(session_dir),
          next_prompt_index |-> get_next_prompt_index(d, session_dir)]

\* lines 224-238
InfoOn(target, d, active) ==
    IF Falsy(target)
    THEN [error |-> "No active session found.", target |-> None, active |-> active,
          dirs |-> d]
    ELSE [error |-> _get_session_info_logic(target.s, d).error, target |-> target,
          active |-> active, dirs |-> d]

\* a variant of get_session_info that makes the directory it reports on
\* the active session (C17 tells the two apart)
get_session_info_activating(session_dir, marker, exists, d, active) ==
    [InfoOn(TargetDir(session_dir, active, _find_latest_session_dir(marker, exists, d)),
            d, active)
        EXCEPT !.active = TargetDir(session_dir, active,
                                    _find_latest_session_dir(marker, exists, d))]

\* the tool get_session_info (lines 210-238)
get_session_info(session_dir, marker, exists, d, active) ==
    InfoOn(TargetDir(session_dir, active, _find_latest_session_dir(marker, exists, d)),
           d, active)

\* the largest number of indexed prompt files of a directory
MaxPrompts == 2

\* keywords given to init_session
McpKeywords == { <<>>, <<" ">>, <<"a">>, <<" ", "a", " ", " ", "B", " ">> }

\* a directory name that no directory has
MissingDir == <<"9">>

\* session_dir arguments: empty, a directory, or a name no directory has
SessionDirArgs(d) == {<<>>, MissingDir} \cup DOMAIN d

\* what read_current_session_marker() returns in a call of a tool:
\* _find_latest_session_dir() runs, and reads the marker, only when
\* session_dir and the active session are both empty (lines 186 and 222)
MarkersRead(session_dir, active, d) ==
    IF Falsy(Either(session_dir, active)) THEN CurrentMarkers(d) ELSE {None}

InitSession ==
    \E keywords \in McpKeywords :
    \E r \in {init_session(keywords, Dates[now], history_dir, dirs, _active_session_dir)} :
        /\ Cardinality(DOMAIN r.dirs) <= MaxDirs
        /\ dirs' = r.dirs
        /\ history_exists' = (history_exists \/ r.error = "none")
        /\ _active_session_dir' = r.active
        /\ ret' = [op |-> "init_session", keywords |-> keywords, error |-> r.error,
                   target |-> r.target]
        /\ UNCHANGED <<now, history_dir, projects, config, uuid_count, rvars>>

ContinueSession ==
    \E session_dir \in SessionDirArgs(dirs) :
    \E marker \in MarkersRead(session_dir, _active_session_dir, dirs) :
    \E r \in {continue_session(session_dir, marker, history_exists, dirs,
                               _active_session_dir)} :
        /\ \A name \in DOMAIN r.dirs : r.dirs[name].indexed <= MaxPrompts
        /\ dirs' = r.dirs
        /\ _active_session_dir' = r.active
        /\ ret' = [op |-> "continue_session", session_dir |-> session_dir,
                   latest |-> _find_latest_session_dir(marker, history_exists, dirs),
                   error |-> r.error, target |-> r.target]
        /\ UNCHANGED <<now, history_dir, history_exists, projects, config, uuid_count, rvars>>

GetSessionInfo ==
    \E session_dir \in SessionDirArgs(dirs) :
    \E marker \in MarkersRead(session_dir, _active_session_dir, dirs) :
    \E r \in {get_session_info(session_dir, marker, history_exists, dirs,
                               _active_session_dir)} :
        /\ dirs' = r.dirs
        /\ _active_session_dir' = r.active
        /\ ret' = [op |-> "get_session_info", session_dir |-> session_dir,
                   latest |-> _find_latest_session_dir(marker, history_exists, dirs),
                   error |-> r.error, target |-> r.target]
        /\ UNCHANGED <<now, history_dir, history_exists, projects, config, uuid_count, rvars>>

McpNext ==
    \/ CreateOne
    \/ InitSession
    \/ ContinueSession
    \/ GetSessionInfo

SpecMcp == Init /\ [][McpNext]_vars

---------------------------------------------------------------------------
(* launch_claude and save_chat on logs of every kind.                      *)

LaunchAnyLog == Launch(OutcomesWith(AllLogs))

ChatNext ==
    \/ CreateOne
    \/ LaunchAnyLog
    \/ SaveChat

SpecChat == Init /\ [][ChatNext]_vars

---------------------------------------------------------------------------
(* The command line as a state machine: every step is one run of main.     *)

MainSaveChat ==
    \E session_id \in SessionIds, prompt_dir \in DOMAIN dirs :
    \E r \in {main_save_chat(dirs, projects, session_id, prompt_dir)} :
        /\ dirs' = r.dirs
        /\ ret' = [op |-> "main_save_chat", exc |-> r.exc, message |-> r.message]
        /\ UNCHANGED <<now, history_dir, history_exists, projects, config, uuid_count,
                       _active_session_dir, rvars>>

MainResume ==
    \E query \in Queries(dirs) :
    \E runs \in {find_session(query, history_exists, dirs).session_id # None} :
    \E skip_flag \in SkipFlagsOf(runs), outcome \in OutcomesOf(runs) :
    \E r \in {main_resume(history_exists, dirs, projects, config, query,
                          skip_flag, outcome)} :
        /\ dirs' = r.dirs
        /\ projects' = r.projects
        /\ ret' = [op |-> "main_resume", query |-> query, found |-> r.found,
                   exc |-> r.exc, message |-> r.message, cmd |-> r.cmd]
        /\ UNCHANGED <<now, history_dir, history_exists, config, uuid_count,
                       _active_session_dir, rvars>>

MainCreate ==
    \E a \in CreateArgs :
    \E outcome \in OutcomesOf(a.keywords # <<>> /\ ~a.dry_run
                              /\ ShouldLaunch(ConfigAfterFlags(config, a), a)) :
    \E r \in {main_create(Dates[now], dirs, projects, config, uuid_count + 1, a, outcome)} :
        /\ r.created => Cardinality(DOMAIN r.dirs) <= MaxDirs
        /\ r.launched => uuid_count < MaxLaunches
        /\ dirs' = r.dirs
        /\ history_exists' = (history_exists \/ r.created)
        /\ projects' = r.projects
        /\ config' = r.config
        /\ uuid_count' = IF r.launched THEN uuid_count + 1 ELSE uuid_count
        /\ ret' = [op |-> "main_create", args |-> a, exc |-> r.exc,
                   message |-> r.message, cmd |-> r.cmd]
        /\ UNCHANGED <<now, history_dir,
                       _active_session_dir, rvars>>

MainNext ==
    \/ MainSaveChat
    \/ MainResume
    \/ MainCreate

SpecMain == Init /\ [][MainNext]_vars

---------------------------------------------------------------------------
(* The renderer as a state machine: a log is given, jsonl_to_markdown is   *)
(* called on it once.                                                      *)

RenderInit ==
    /\ \E n \in 0..MaxLines : log \in Logs(n)
    /\ result = None
    /\ now = 1
    /\ history_dir = PlainDir
    /\ history_exists = FALSE
    /\ dirs = NoDirs
    /\ projects = NoLogs
    /\ config = None
    /\ uuid_count = 0
    /\ _active_session_dir = None
    /\ ret = [op |-> "init"]

Render ==
    /\ result = None
    /\ result' = jsonl_to_markdown(log)
    /\ UNCHANGED <<log, fsvars>>

RenderNext == Render

SpecRender == RenderInit /\ [][RenderNext]_vars

Rendered == result # None

---------------------------------------------------------------------------
(* Properties of the renderer, checked under SpecRender.                   *)

\* a line that cannot be parsed as a structured record
Malformed(line) == ~IsBlank(line) /\ json_loads(line).exc = "JSONDecodeError"

WellParsed(line) == ~Malformed(line)

\* C1: a line that cannot be parsed does not make jsonl_to_markdown fail and
\* gets no section: the call returns what it returns on the log with the
\* malformed lines removed.
C1_MalformedLinesSkipped ==
    Rendered => result = jsonl_to_markdown(SelectSeq(log, WellParsed))

\* C1 reached: a log with a malformed line and a user record was rendered
\* without an exception, the user section in the document
C1_Witness ==
    /\ Rendered
    /\ \E i \in 1..Len(log) : Malformed(log[i])
    /\ \E i \in 1..Len(log) : log[i] \in UserLines
    /\ result.exc = "none"
    /\ IsSubstring(<<"## User">>, result.val)

\* C2: on a readable log jsonl_to_markdown surfaces no error, whatever the
\* shape of the records and blocks; every wrongly shaped one is omitted.
\* The code raises AttributeError on a record or message that is no mapping
\* and TypeError on a tool input that is null or a command that is a number.
C2_NoErrorSurfaced == Rendered => result.exc = "none"

\* a well-formed user record with non-empty string content
WellFormedUser(line) ==
    /\ line.kind = "json"
    /\ IsDict(line.value)
    /\ Get(line.value, "type", JNull) = JStr(<<"user">>)
    /\ IsDict(Get(line.value, "message", JNull))
    /\ IsStr(Get(Get(line.value, "message", JNull), "content", JNull))
    /\ Get(Get(line.value, "message", JNull), "content", JNull).s # <<>>

UserContent(line) == Get(Get(line.value, "message", JNull), "content", JNull).s

\* C7: the document returned for a log with a well-formed user record of
\* non-empty string content contains that content and a "## User" heading,
\* whatever other records the log holds. A wrongly shaped record elsewhere
\* in the log makes the call raise, and no document is returned.
C7_UserContentRendered ==
    Rendered =>
        \A i \in 1..Len(log) :
            WellFormedUser(log[i]) =>
                /\ result.exc = "none"
                /\ IsSubstring(<<"## User">>, result.val)
                /\ IsSubstring(UserContent(log[i]), result.val)

\* a record of kind summary or file-history-snapshot
SkippedKind(line) ==
    /\ line.kind = "json"
    /\ IsDict(line.value)
    /\ Get(line.value, "type", JNull) \in {JStr(<<"summary">>), JStr(<<"file-history-snapshot">>)}

NotSkippedKind(line) == ~SkippedKind(line)

\* C8: summary and file-history-snapshot records produce no output, whatever
\* their payload: the call returns what it returns on the log without them,
\* and a log made only of them renders to the bare heading.
C8_SummaryAndSnapshotSilent ==
    Rendered =>
        /\ result = jsonl_to_markdown(SelectSeq(log, NotSkippedKind))
        /\ (\A i \in 1..Len(log) : SkippedKind(log[i])) => result = Ok(Header)

\* C8 reached: a summary record carrying a message and a timestamp was
\* rendered next to a record that has a section
C8_Witness ==
    /\ Rendered
    /\ \E i \in 1..Len(log) :
           /\ SkippedKind(log[i])
           /\ "message" \in DOMAIN log[i].value.map
           /\ "timestamp" \in DOMAIN log[i].value.map
    /\ result.exc = "none"
    /\ result.val # Header

\* a block that is a text block, empty or "(no content)", or of unknown kind
HollowBlock(block) ==
    /\ IsDict(block)
    /\ \/ /\ Get(block, "type", JNull) = JStr(<<"text">>)
          /\ Get(block, "text", JStr(<<>>)) \in {JStr(<<>>), JStr(NoContent)}
       \/ Get(block, "type", JNull) \notin {JStr(<<"text">>), JStr(<<"tool_use">>)}

\* an assistant record all of whose content blocks are hollow
HollowAssistant(line) ==
    /\ line.kind = "json"
    /\ IsDict(line.value)
    /\ Get(line.value, "type", JNull) = JStr(<<"assistant">>)
    /\ IsDict(Get(line.value, "message", JNull))
    /\ IsList(Get(Get(line.value, "message", JNull), "content", JNull))
    /\ \A j \in 1..Len(Get(Get(line.value, "message", JNull), "content", JNull).items) :
           HollowBlock(Get(Get(line.value, "message", JNull), "content", JNull).items[j])

NotHollowAssistant(line) == ~HollowAssistant(line)

\* C9: an assistant record whose blocks are all empty or "(no content)" text
\* blocks or blocks of unknown kind produces no output: the call returns what
\* it returns on the log without such records, so no "## Assistant" heading
\* stands with nothing under it.
C9_NoDanglingAssistantHeading ==
    Rendered =>
        /\ result = jsonl_to_markdown(SelectSeq(log, NotHollowAssistant))
        /\ (\A i \in 1..Len(log) : HollowAssistant(log[i])) => result = Ok(Header)

\* C9 reached: a record with a non-empty list of hollow blocks was rendered
\* and the document has no assistant heading
C9_Witness ==
    /\ Rendered
    /\ \E i \in 1..Len(log) :
           /\ HollowAssistant(log[i])
           /\ log[i].value.map["message"].map["content"].items # <<>>
    /\ result.exc = "none"
    /\ ~IsSubstring(<<"## Assistant">>, result.val)

\* the sections of the lines i.. of a log, each as the line alone yields it
RECURSIVE SectionsFrom(_, _)
SectionsFrom(lines, i) ==
    IF i > Len(lines) THEN <<>>
    ELSE LineParts(lines[i]).val \o SectionsFrom(lines, i + 1)

\* what the blocks j.. of a content list render to, each as the block alone
\* yields it
RECURSIVE BlocksFrom(_, _)
BlocksFrom(content, j) ==
    IF j > Len(content) THEN <<>>
    ELSE BlockPart(content[j]).val \o BlocksFrom(content, j + 1)

\* an assistant record with a list of blocks
AssistantWithBlocks(line) ==
    /\ line.kind = "json"
    /\ IsDict(line.value)
    /\ Get(line.value, "type", JNull) = JStr(<<"assistant">>)
    /\ IsDict(Get(line.value, "message", JNull))
    /\ IsList(Get(Get(line.value, "message", JNull), "content", JNull))

BlocksOf(line) == Get(Get(line.value, "message", JNull), "content", JNull).items

\* C10: the document is the heading followed by the sections of the lines in
\* the order of the lines; an assistant section is its heading followed by
\* what its blocks render to in the order of the blocks; the document starts
\* with "# Chat History".
C10_OrderPreserved ==
    (Rendered /\ result.exc = "none") =>
        /\ result.val = Join(<<Header>> \o SectionsFrom(log, 1))
        /\ result.val[1] = "# Chat History"
        /\ \A i \in 1..Len(log) :
               (AssistantWithBlocks(log[i]) /\ LineParts(log[i]).val # <<>>) =>
                   LineParts(log[i]).val =
                       <<AssistantHeader(TsStr(log[i].value))>>
                           \o BlocksFrom(BlocksOf(log[i]), 1)

\* C10 reached: two different records with sections were rendered, the
\* second an assistant record with two different rendered blocks
C10_Witness ==
    /\ Rendered
    /\ result.exc = "none"
    /\ Len(log) = 2
    /\ log[1] # log[2]
    /\ LineParts(log[1]).val # <<>>
    /\ AssistantWithBlocks(log[2])
    /\ Len(BlocksFrom(BlocksOf(log[2]), 1)) = 2
    /\ BlockPart(BlocksOf(log[2])[1]) # BlockPart(BlocksOf(log[2])[2])

---------------------------------------------------------------------------
(* Properties of the session operations, checked under Spec and SpecMain.  *)

\* C3: a marker file that holds an identifier keeps it in every step of
\* create_prompt_dir, launch_claude, save_chat and find_session. A second
\* launch_claude on the same directory writes a fresh identifier over it.
C3_IdentifierImmutable ==
    [][\A name \in DOMAIN dirs :
           dirs[name].session_id # None =>
               dirs'[name].session_id = dirs[name].session_id]_vars

\* the other directories whose name contains the query
Containing(query) == {name \in DOMAIN dirs \ {query} : IsSubstring(query, name)}

\* C4: when the query is the full name of one directory and a substring of
\* another's, find_session returns the directory named by the query with the
\* identifier of its marker, wherever the two names sort.
C4_ExactBeforeSubstring ==
    (/\ ret.op = "find_session"
     /\ ret.query \in DOMAIN dirs
     /\ Containing(ret.query) # {}) =>
        /\ ret.exc = "none"
        /\ ret.dirpath = JStr(ret.query)
        /\ ret.session_id = dirs[ret.query].session_id

\* C4 reached: find_session was called with a query that names a directory
\* holding a marker, while a directory listed before it contains the query
\* and holds another marker
C4_Witness ==
    /\ ret.op = "find_session"
    /\ ret.query \in DOMAIN dirs
    /\ dirs[ret.query].session_id # None
    /\ \E other \in Containing(ret.query) :
           /\ StrLess(ret.query, other)
           /\ dirs[other].session_id \notin {None, dirs[ret.query].session_id}

\* the directories whose name equals or contains the query
NameMatches(query) == {name \in DOMAIN dirs : IsSubstring(query, name)}

\* the directories whose marker file stores the query
MarkerMatches(query) ==
    {name \in DOMAIN dirs :
        dirs[name].session_id # None /\ StoredId(dirs, name) = query}

\* C5: find_session returns (None, directory) when the directory matched by
\* name has no marker file, and (None, None) only when no name equals or
\* contains the query and no marker stores it; main --resume then exits with
\* failure, with a message of its own in each case, and runs no subprocess.
C5_PartialResultDistinct ==
    ret.op = "main_resume" =>
        /\ NameMatches(ret.query) # {} =>
               /\ ret.found.dirpath # None
               /\ ret.found.dirpath.s \in NameMatches(ret.query)
               /\ ret.found.session_id = None
                      <=> dirs[ret.found.dirpath.s].session_id = None
        /\ (ret.found.session_id = None /\ ret.found.dirpath = None)
               <=> (NameMatches(ret.query) = {} /\ MarkerMatches(ret.query) = {})
        /\ (ret.found.session_id = None /\ ret.found.dirpath # None) =>
               /\ ret.exc = "SystemExit"
               /\ ret.message = "Found directory but no .session_id file"
               /\ ret.cmd = None
        /\ (ret.found.session_id = None /\ ret.found.dirpath = None) =>
               /\ ret.exc = "SystemExit"
               /\ ret.message = "No matching session found"
               /\ ret.cmd = None

\* C5 reached: main --resume was run with a query matching the name of a
\* directory without a marker file, while another directory holds a marker
C5_Witness ==
    /\ ret.op = "main_resume"
    /\ ret.found.session_id = None
    /\ ret.found.dirpath # None
    /\ \E name \in DOMAIN dirs : dirs[name].session_id # None

\* C6: find_session on a history directory that does not exist returns
\* (None, None), raises nothing and leaves the directory absent.
C6_MissingRootNotFound ==
    [][(~history_exists /\ ret'.op = "find_session") =>
           /\ ret'.exc = "none"
           /\ ret'.session_id = None
           /\ ret'.dirpath = None
           /\ ~history_exists']_vars

\* C6 reached: find_session has returned and the history directory does not
\* exist
C6_Witness == ret.op = "find_session" /\ ~history_exists

---------------------------------------------------------------------------
(* _format_tool_use as a state machine: every step is one call on a        *)
(* tool_use block.                                                         *)

\* the keys _format_tool_use looks for, and the values tried under each
DetailKeys == {"file_path", "command", "pattern", "query"}

\* a command of TruncateLen + 1 characters
LongCommand == [i \in 1..(TruncateLen + 1) |-> IF i > TruncateLen THEN "y" ELSE "x"]

ValuesOf(key) ==
    IF key = "command" THEN {<<"l", "s">>, LongCommand}
    ELSE {<<"a", ".", "p", "y">>}

\* the argument mappings: any subset of the four keys, and a key of no
\* interest to _format_tool_use
ToolInputs ==
    UNION { { JDict([k \in keys |-> JStr(v[k])]) :
                v \in {f \in [keys -> UNION {ValuesOf(k) : k \in DetailKeys}] :
                          \A k \in keys : f[k] \in ValuesOf(k)} } :
            keys \in SUBSET (DetailKeys \cup {"description"}) }

\* what a block holds besides its input: a name or none, an id or none
ToolHeads ==
    { Type("tool_use"),
      Type("tool_use") @@ ("name" :> JStr(<<"Read">>)),
      Type("tool_use") @@ ("name" :> JStr(<<"Read">>)) @@ ("id" :> JStr(<<"t1">>)),
      Type("tool_use") @@ ("name" :> JStr(<<"Bash">>)) @@ ("id" :> JStr(<<"t2">>)) }

ToolBlocks ==
    {JDict(h) : h \in ToolHeads}
        \cup {JDict(h @@ ("input" :> inp)) : h \in ToolHeads, inp \in ToolInputs}

FormatToolUse ==
    \E block \in ToolBlocks :
    \E r \in {_format_tool_use(block)} :
        /\ ret' = [op |-> "_format_tool_use", block |-> block, exc |-> r.exc, line |-> r.val]
        /\ UNCHANGED <<now, history_dir, history_exists, dirs, projects, config, uuid_count,
                       _active_session_dir, rvars>>

ToolNext == FormatToolUse

SpecTool == Init /\ [][ToolNext]_vars

---------------------------------------------------------------------------
(* Properties of _format_tool_use, checked under SpecTool.                 *)

\* the name and the argument mapping of a block
NameOfBlock(block) ==
    IF "name" \in DOMAIN block.map THEN block.map["name"].s ELSE <<"Unknown">>

InputOfBlock(block) ==
    IF "input" \in DOMAIN block.map THEN block.map["input"].map ELSE EmptyMap

\* the key of highest priority the mapping holds
FirstKey(m) ==
    IF "file_path" \in DOMAIN m THEN "file_path"
    ELSE IF "command" \in DOMAIN m THEN "command"
    ELSE IF "pattern" \in DOMAIN m THEN "pattern"
    ELSE "query"

\* the value shown for a key: a command is cut to its first TruncateLen
\* characters
Shown(m, key) ==
    IF key = "command" /\ Len(m[key].s) > TruncateLen
    THEN SubSeq(m[key].s, 1, TruncateLen)
    ELSE m[key].s

\* the line for a name and a mapping
ExpectedLine(name, m) ==
    IF DOMAIN m \cap DetailKeys = {}
    THEN <<"> Used tool: **">> \o name \o <<"**">>
    ELSE <<"> Used tool: **">> \o name \o <<"**(">>
             \o Backquote \o Shown(m, FirstKey(m)) \o Backquote \o <<")">>

\* C11: the summary line shows one detail, the value of the first of
\* file_path, command, pattern, query the argument mapping holds; with none
\* of the four it is the name alone, without parentheses; the line is a
\* function of the name and the mapping.
C11_DetailByPriority ==
    ret.op = "_format_tool_use" =>
        /\ ret.exc = "none"
        /\ ret.line = ExpectedLine(NameOfBlock(ret.block), InputOfBlock(ret.block))

\* C11 reached: a block whose mapping holds file_path, command and pattern
\* was formatted, and the line shows the file_path value
C11_Witness ==
    /\ ret.op = "_format_tool_use"
    /\ {"file_path", "command", "pattern"} \subseteq DOMAIN InputOfBlock(ret.block)
    /\ "id" \in DOMAIN ret.block.map
    /\ IsSubstring(<<"a", ".", "p", "y">>, ret.line)
    /\ ~IsSubstring(<<"l", "s">>, ret.line)

---------------------------------------------------------------------------
(* Properties of main, checked under SpecMain.                             *)

\* C12: a run of main with --dry-run and keywords leaves the history
\* directory as it was and runs no subprocess. main calls create_prompt_dir
\* before it looks at --dry-run, so the session directory is made.
C12_DryRunCreatesNothing ==
    [][(/\ ret'.op = "main_create"
        /\ ret'.args.dry_run
        /\ ret'.args.keywords # <<>>) =>
           /\ dirs' = dirs
           /\ history_exists' = history_exists
           /\ ret'.cmd = None]_vars

\* C13: after a run of main with --always-dangerously-skip-permissions the
\* config file has skip_permissions = true, whatever the other flags and
\* with or without keywords. With --always-launch and no keywords main
\* returns before it reads the flag.
C13_SkipPermissionsSaved ==
    (ret.op = "main_create" /\ ret.args.skip = "always") =>
        /\ config # None
        /\ load_config(config).skip_permissions

---------------------------------------------------------------------------
(* Properties of save_chat and launch_claude, checked under SpecChat.      *)

\* the rendering of the log of a session
MarkdownOf(session_id) == jsonl_to_markdown(LogLines(projects[session_id]))

\* C14: save_chat on a session without a log in the projects directory ends
\* with SystemExit and leaves the session directories as they were; on a
\* session with a log it does not end so, and on return chat_history.jsonl
\* is the log and chat_history.md its rendering, whatever the two files held
\* before, the rest as it was.
C14_MissingLogIsFailure ==
    [][ret'.op = "save_chat" =>
           IF ret'.session_id \notin DOMAIN projects
           THEN ret'.exc = "SystemExit" /\ dirs' = dirs
           ELSE /\ ret'.exc # "SystemExit"
                /\ ret'.exc = "none" =>
                       dirs' = [dirs EXCEPT
                                   ![ret'.prompt_dir].chat_jsonl =
                                       File(projects[ret'.session_id]),
                                   ![ret'.prompt_dir].chat_md =
                                       File(MarkdownOf(ret'.session_id).val)]]_vars

\* C14 reached: save_chat returned after it replaced, in the directory of
\* another session, the copies of that session's different log
C14_Witness ==
    /\ ret.op = "save_chat"
    /\ ret.exc = "none"
    /\ dirs[ret.prompt_dir].session_id \notin {None, JStr(ret.session_id)}
    /\ dirs[ret.prompt_dir].session_id.s \in DOMAIN projects
    /\ projects[dirs[ret.prompt_dir].session_id.s] = "short"
    /\ projects[ret.session_id] = "good"
    /\ dirs[ret.prompt_dir].chat_md = File(MarkdownOf(ret.session_id).val)

\* C19: launch_claude uses one fresh identifier throughout: the marker file
\* holds it when the subprocess starts, the subprocess gets it as
\* --session-id, and after the subprocess, interrupted or not, the log of
\* that identifier is copied into the prompt directory if it exists and the
\* directory's chat files are left alone if not; what launch_claude returns
\* is that identifier. (When the rendering of the copied log raises, the
\* exception leaves launch_claude and nothing is returned.)
C19_OneIdentifierThroughout ==
    [][ret'.op = "launch_claude" =>
           /\ Uuid(uuid_count') \notin DOMAIN projects
           /\ \A name \in DOMAIN dirs : dirs[name].session_id # JStr(Uuid(uuid_count'))
           /\ ret'.marker_at_start = JStr(Uuid(uuid_count'))
           /\ dirs'[ret'.prompt_dir].session_id = JStr(Uuid(uuid_count'))
           /\ ret'.cmd.session_id = Uuid(uuid_count')
           /\ ~ret'.cmd.resume
           /\ ret'.exc # "KeyboardInterrupt"
           /\ IF Uuid(uuid_count') \in DOMAIN projects'
              THEN /\ dirs'[ret'.prompt_dir].chat_jsonl = File(projects'[Uuid(uuid_count')])
                   /\ ret'.exc = "none" =>
                          dirs'[ret'.prompt_dir].chat_md =
                              File(jsonl_to_markdown(
                                       LogLines(projects'[Uuid(uuid_count')])).val)
              ELSE /\ ret'.exc = "none"
                   /\ dirs'[ret'.prompt_dir].chat_jsonl = dirs[ret'.prompt_dir].chat_jsonl
                   /\ dirs'[ret'.prompt_dir].chat_md = dirs[ret'.prompt_dir].chat_md
           /\ ret'.exc = "none" => ret'.session_id = JStr(Uuid(uuid_count'))]_vars

\* C19 reached: a second launch_claude, interrupted by Ctrl-C, returned its
\* identifier after its log was saved
C19_Witness ==
    /\ ret.op = "launch_claude"
    /\ ret.outcome.end = "KeyboardInterrupt"
    /\ uuid_count = 2
    /\ ret.exc = "none"
    /\ ret.session_id = JStr(Uuid(2))
    /\ dirs[ret.prompt_dir].chat_jsonl = File("good")

---------------------------------------------------------------------------
(* Properties of get_next_seq and create_prompt_dir, checked under         *)
(* SpecSeq.                                                                *)

\* the largest sequence number looked for among the entries
MaxSeq == 14

\* name is '<date_prefix>-<n>-...'
IsEntryOf(date_prefix, n, name) ==
    HasPrefix(name, date_prefix \o <<"-">> \o IntStr(n) \o <<"-">>)

\* the sequence numbers of the entries of a date
SeqsPresent(date_prefix, names) ==
    {n \in 0..MaxSeq : \E name \in names : IsEntryOf(date_prefix, n, name)}

\* C15: get_next_seq returns 1 when no entry is named
\* '<date_prefix>-<digits>-...', and otherwise one more than the largest
\* sequence number of such entries, whatever the gaps and the entries of
\* other dates.
C15_NextSeqIsMaxPlusOne ==
    ret.op = "get_next_seq" =>
        IF SeqsPresent(ret.date_prefix, DOMAIN dirs) = {}
        THEN ret.seq = 1
        ELSE /\ ret.seq - 1 \in SeqsPresent(ret.date_prefix, DOMAIN dirs)
             /\ \A n \in SeqsPresent(ret.date_prefix, DOMAIN dirs) : n < ret.seq

\* the date prefix of now
Today == DatePrefix(Dates[now])

\* C18: a create_prompt_dir call without seq_override makes a directory that
\* was not there before, with a sequence number larger than that of every
\* directory of the date already there; so the numbers of successive calls
\* on one date increase strictly.
C18_FreshIncreasingSeq ==
    [][(ret'.op = "create_prompt_dir" /\ ret'.seq_override = None) =>
           /\ ret'.dirpath.s \notin DOMAIN dirs
           /\ ret'.dirpath.s \in DOMAIN dirs'
           /\ \E n \in 1..MaxSeq :
                  /\ IsEntryOf(Today, n, ret'.dirpath.s)
                  /\ \A m \in SeqsPresent(Today, DOMAIN dirs) : m < n]_vars

---------------------------------------------------------------------------
(* Properties of find_session, checked under SpecFind.                     *)

\* the directories of each tier for a query
ExactTier(query) == {name \in DOMAIN dirs : name = query}

SubstringTier(query) == {name \in DOMAIN dirs : IsSubstring(query, name)}

IdentifierTier(query) ==
    {name \in DOMAIN dirs :
        dirs[name].session_id # None /\ Strip(dirs[name].session_id.s) = query}

\* the first tier that has a match, empty when none has
WinningTier(query) ==
    IF ExactTier(query) # {} THEN ExactTier(query)
    ELSE IF SubstringTier(query) # {} THEN SubstringTier(query)
    ELSE IdentifierTier(query)

\* the name of S that sorts after every other
Greatest(S) == CHOOSE n \in S : \A m \in S \ {n} : StrLess(m, n)

---------------------------------------------------------------------------
(* Properties of the MCP server, checked under SpecMcp.                    *)

\* C17: continue_session and get_session_info with an empty session_dir
\* work on the active session, and on the auto-detected latest session only
\* when there is no active session; a session_dir that is not empty names
\* the directory they work on; a successful init_session or
\* continue_session makes its directory the active session, and a failed
\* call or a get_session_info call leaves the active session as it was.
C17_ActiveSessionFollowsSuccess ==
    [][/\ ret'.op \in {"continue_session", "get_session_info"} =>
              ret'.target =
                  IF ret'.session_dir # <<>> THEN JStr(ret'.session_dir)
                  ELSE IF _active_session_dir # None THEN _active_session_dir
                  ELSE ret'.latest
       /\ ret'.op = "continue_session" /\ ret'.error = "none" =>
              /\ ret'.target.s \in DOMAIN dirs
              /\ dirs'[ret'.target.s].indexed = dirs[ret'.target.s].indexed + 1
       /\ (ret'.op \in {"init_session", "continue_session"} /\ ret'.error = "none") =>
              /\ ret'.target # None
              /\ _active_session_dir' = ret'.target
       /\ (ret'.op \in {"init_session", "continue_session"} /\ ret'.error # "none") =>
              _active_session_dir' = _active_session_dir
       /\ ret'.op = "get_session_info" =>
              _active_session_dir' = _active_session_dir]_vars

\* C17 reached: with an active session and another directory holding a
\* prompt.md, get_session_info was called with that other directory as
\* session_dir, reported on it without error and left the active session
C17_Witness ==
    /\ ret.op = "get_session_info"
    /\ ret.error = "none"
    /\ _active_session_dir # None
    /\ ret.session_dir # <<>>
    /\ ret.target = JStr(ret.session_dir)
    /\ ret.target # _active_session_dir
    /\ dirs[_active_session_dir.s].indexed > 0

=============================================================================
